---- MODULE Spec2Model ----
(***************************************************************************)
(* Model of src/tp2c2025/main.js: the start-up script, the resize and      *)
(* keydown listeners and the animate() frame callback.  JavaScript runs    *)
(* each of them to completion, so each is one action.  The calls a handler *)
(* makes are recorded, in order, in `calls`.                               *)
(*                                                                         *)
(* Units: time in milliseconds, angles in milliradians, speed in           *)
(* hundredths of a unit per second, throttle in thousandths.               *)
(***************************************************************************)
EXTENDS Integers, Sequences, FiniteSets

VARIABLES
    handler,       \* which task ran last: "none", "startup", "frame", "resize", "keydown"
    win,           \* <<window.innerWidth, window.innerHeight>>
    docHasHud,     \* does the document contain an element with id "hud"
    hudEl,         \* the const hudEl: "unset", "null" or "div"
    hudHTML,       \* hudEl.innerHTML written by updateHUD: <<>> or the four numbers shown
    camera,        \* [aspect, projAspect]: camera.aspect and the aspect baked in the projection matrix
    rendererSize,  \* size last given to renderer.setSize
    ctrl,          \* the AirplaneController: [constructed, cfg, plane]
    clockRunning,  \* THREE.Clock.running
    elapsed,       \* value returned by the last clock.getDelta()
    dtArg,         \* argument of the last controller.update
    poseArg,       \* argument of the last controller.setTransform
    startPose,     \* argument of the start-up controller.setTransform
    lastKey,       \* e.code of the last keydown event
    pending,       \* number of requested animation frame callbacks not yet run
    calls          \* calls made by the task that ran last, in order

vars == <<handler, win, docHasHud, hudEl, hudHTML, camera, rendererSize, ctrl,
          clockRunning, elapsed, dtArg, poseArg, startPose, lastKey, pending, calls>>

\* ---------------------------------------------------------------- bounds
MaxElapsedSteps == 2
\* elapsed times a frame can see: multiples of 25 ms, and a long tab suspension
ElapsedChoices == {k * 25 : k \in 0..MaxElapsedSteps} \cup {60000}

Widths == {800, 1600}
Heights == {600, 1200}
WinSizes == Widths \X Heights
KeyCodes == {"KeyR", "KeyW", "Space"}

\* ---------------------------------------------------------------- helpers
Abs(n) == IF n < 0 THEN -n ELSE n

RECURSIVE Gcd(_, _)
Gcd(a, b) == IF b = 0 THEN a ELSE Gcd(b, a % b)

\* window.innerWidth / window.innerHeight, as a fraction in lowest terms
Ratio(w, h) == <<w \div Gcd(w, h), h \div Gcd(w, h)>>

Count(op, s) == Cardinality({i \in 1..Len(s) : s[i] = op})
Has(op, s) == \E i \in 1..Len(s) : s[i] = op
\* s has exactly one a and one b, and a comes first
Before(a, b, s) ==
    /\ Count(a, s) = 1 /\ Count(b, s) = 1
    /\ \E i, j \in 1..Len(s) : s[i] = a /\ s[j] = b /\ i < j

\* THREE.MathUtils.degToRad, in milliradians
DegToRad(d) == (d * 31416) \div 1800

\* ---------------------------------------------------------------- main.js constants
\* Math.min(0.05, ...) of animate, in milliseconds
MaxStepMs == 50

\* the options object of new AirplaneController (thousandths where fractional)
Config == [ maxSpeed |-> 120, accelResponse |-> 2200, drag |-> 15,
            pitchLimit |-> DegToRad(45), bankLimit |-> DegToRad(60),
            pitchCmdRateDeg |-> 60, bankCmdRateDeg |-> 90,
            pitchResponse |-> 5000, bankResponse |-> 6000,
            pitchCentering |-> 1000, bankCentering |-> 1500,
            turnRateGain |-> 1300, yawTaxiRate |-> 4398,
            stallSpeed |-> 12, ctrlVRange |-> 25, minY |-> 2 ]

\* variant: the start-up pose sits on the runway mesh (y = 0)
StartupPose_onRunway == [ position |-> <<0, 0, 0>>,
                          euler |-> [x |-> 0, y |-> 0, z |-> 0, order |-> "YXZ"],
                          throttle |-> 0 ]

\* the pose of the start-up setTransform call
StartupPose == [ position |-> <<0, 2, 0>>,
                 euler |-> [x |-> 0, y |-> 0, z |-> 0, order |-> "YXZ"],
                 throttle |-> 0 ]

\* variant: R keeps full throttle
ResetPose_fullThrottle == [ position |-> <<0, 2, 0>>,
                            euler |-> [x |-> 0, y |-> 0, z |-> 0, order |-> "YXZ"],
                            throttle |-> 1000 ]

\* the pose of the setTransform call of the keydown listener
ResetPose == [ position |-> <<0, 2, 0>>,
               euler |-> [x |-> 0, y |-> 0, z |-> 0, order |-> "YXZ"],
               throttle |-> 0 ]

\* value of poseArg and startPose before any setTransform call
NoPose == [ position |-> <<0, 0, 0>>,
            euler |-> [x |-> 0, y |-> 0, z |-> 0, order |-> "XYZ"],
            throttle |-> 0 ]

\* ---------------------------------------------------------------- AirplaneController
\* (airplaneController.js; only its contract is known)
ZeroPlane == [ position |-> <<0, 0, 0>>,
               euler |-> [x |-> 0, y |-> 0, z |-> 0, order |-> "XYZ"],
               throttle |-> 0, speed |-> 0 ]

NoCtrl == [ constructed |-> FALSE, cfg |-> [c \in DOMAIN Config |-> 0], plane |-> ZeroPlane ]

\* plane states the simulation can produce
PlaneStates == [ position : {<<0, y, 0>> : y \in {2, 5}},
                 euler : [x : {785}, y : {0}, z : {-1047}, order : {"YXZ"}],
                 throttle : {0, 505},
                 speed : {1225} ]

\* new AirplaneController(plane, options)
newController(options) == [ constructed |-> TRUE, cfg |-> options, plane |-> ZeroPlane ]

\* controller.setTransform({position, euler, throttle})
setTransform(c, pose) ==
    [c EXCEPT !.plane.position = pose.position,
              !.plane.euler = pose.euler,
              !.plane.throttle = pose.throttle]

\* the states controller.update(dt) may leave the plane in: any state within the limits
UpdateOutcomes(c, dt) ==
    {p \in PlaneStates :
        /\ p.position[2] >= c.cfg.minY
        /\ Abs(p.euler.x) <= c.cfg.pitchLimit
        /\ Abs(p.euler.z) <= c.cfg.bankLimit
        /\ p.throttle >= 0 /\ p.throttle <= 1000
        /\ p.speed <= c.cfg.maxSpeed * 100}

\* controller.update(dt), with the outcome resolved to p
update(c, dt, p) == [c EXCEPT !.plane = p]

\* radians to degrees, milliradians in, tenths of a degree out (truncated)
RadToDegTenths(r) ==
    IF r < 0 THEN -((-r * 18000) \div 31416) ELSE (r * 18000) \div 31416

\* controller.getStatus(): speed (hundredths), pitchDeg and bankDeg (tenths)
getStatus(c) == [ speed |-> c.plane.speed,
                  pitchDeg |-> RadToDegTenths(c.plane.euler.x),
                  bankDeg |-> RadToDegTenths(c.plane.euler.z) ]

\* controller.getEnginePower(): throttle fraction (thousandths)
getEnginePower(c) == c.plane.throttle

\* ---------------------------------------------------------------- HUD
\* Number.prototype.toFixed: round to the nearest, ties away from zero
RoundDiv10(v) == IF v < 0 THEN -((-v + 5) \div 10) ELSE (v + 5) \div 10

\* s.speed.toFixed(1): hundredths in, tenths out
SpeedText(speed) == RoundDiv10(speed)

\* (controller.getEnginePower()*100)|0: thousandths in, whole percent out, truncated
ThrottleText(power) == IF power < 0 THEN -((-power) \div 10) ELSE power \div 10

\* s.pitchDeg.toFixed(0), s.bankDeg.toFixed(0): tenths of a degree in, whole degrees out
DegText(tenths) == RoundDiv10(tenths)

\* document.getElementById('hud')
getElementById(hasHud) == IF hasHud THEN "div" ELSE "null"

\* variant: no null check before reading the status
updateHUD_noGuard(el, html, c) ==
    LET s == getStatus(c)
    IN [html |-> IF el = "div"
                 THEN <<SpeedText(s.speed), ThrottleText(getEnginePower(c)),
                        DegText(s.pitchDeg), DegText(s.bankDeg)>>
                 ELSE html,
        calls |-> <<"controller.getStatus", "controller.getEnginePower">>
                  \o (IF el = "div" THEN <<"hudEl.innerHTML">> ELSE <<>>)]

\* updateHUD(): the new innerHTML and the calls made
updateHUD(el, html, c) ==
    IF el # "div"
    THEN [html |-> html, calls |-> <<>>]
    ELSE LET s == getStatus(c)
         IN [html |-> <<SpeedText(s.speed), ThrottleText(getEnginePower(c)),
                        DegText(s.pitchDeg), DegText(s.bankDeg)>>,
             calls |-> <<"controller.getStatus", "controller.getEnginePower", "hudEl.innerHTML">>]

\* ---------------------------------------------------------------- frame
\* clock.getDelta(): 0 on the call that starts the clock, else the time since the last call
getDelta(running, e) == IF running THEN e ELSE 0

\* variant: the delta is passed on unclamped
ClampDt_unclamped(e) == e

\* Math.min(0.05, clock.getDelta())
ClampDt(e) == IF e < MaxStepMs THEN e ELSE MaxStepMs

\* variant: the simulation is stepped twice in a frame
animate_updateTwice(c, el, html, running, e, p, pend) ==
    LET delta == getDelta(running, e)
        dt == ClampDt(delta)
        c1 == update(update(c, dt, p), dt, p)
        h == updateHUD(el, html, c1)
    IN [ ctrl |-> c1, hudHTML |-> h.html, elapsed |-> delta, dtArg |-> dt,
         pending |-> pend + 1,
         calls |-> <<"clock.getDelta", "controller.update", "controller.update">> \o h.calls
                   \o <<"renderer.render", "requestAnimationFrame">> ]

\* variant: the HUD is refreshed before the simulation step
animate_hudFirst(c, el, html, running, e, p, pend) ==
    LET delta == getDelta(running, e)
        dt == ClampDt(delta)
        h == updateHUD(el, html, c)
        c1 == update(c, dt, p)
    IN [ ctrl |-> c1, hudHTML |-> h.html, elapsed |-> delta, dtArg |-> dt,
         pending |-> pend + 1,
         calls |-> <<"clock.getDelta">> \o h.calls \o <<"controller.update">>
                   \o <<"renderer.render", "requestAnimationFrame">> ]

\* variant: the next frame is requested only while the plane is above the ground height
animate_stopsOnGround(c, el, html, running, e, p, pend) ==
    LET delta == getDelta(running, e)
        dt == ClampDt(delta)
        c1 == update(c, dt, p)
        h == updateHUD(el, html, c1)
        again == c1.plane.position[2] > c1.cfg.minY
    IN [ ctrl |-> c1, hudHTML |-> h.html, elapsed |-> delta, dtArg |-> dt,
         pending |-> IF again THEN pend + 1 ELSE pend,
         calls |-> <<"clock.getDelta", "controller.update">> \o h.calls
                   \o <<"renderer.render">>
                   \o (IF again THEN <<"requestAnimationFrame">> ELSE <<>>) ]

\* animate(): e is the time since the last getDelta, p the outcome of update,
\* pend the callbacks pending when the body starts
animate(c, el, html, running, e, p, pend) ==
    LET delta == getDelta(running, e)
        dt == ClampDt(delta)
        c1 == update(c, dt, p)
        h == updateHUD(el, html, c1)
    IN [ ctrl |-> c1, hudHTML |-> h.html, elapsed |-> delta, dtArg |-> dt,
         pending |-> pend + 1,
         calls |-> <<"clock.getDelta", "controller.update">> \o h.calls
                   \o <<"renderer.render", "requestAnimationFrame">> ]

\* ---------------------------------------------------------------- listeners
\* variant: the aspect is computed as height / width
resize_inverted(w, h) ==
    [ camera |-> [aspect |-> Ratio(h, w), projAspect |-> Ratio(h, w)],
      rendererSize |-> <<w, h>>,
      calls |-> <<"camera.updateProjectionMatrix", "renderer.setSize">> ]

\* the resize listener
resize(w, h) ==
    [ camera |-> [aspect |-> Ratio(w, h), projAspect |-> Ratio(w, h)],
      rendererSize |-> <<w, h>>,
      calls |-> <<"camera.updateProjectionMatrix", "renderer.setSize">> ]

\* variant: every key resets the plane
keydown_anyKey(c, code, pose) ==
    [ctrl |-> setTransform(c, ResetPose), poseArg |-> ResetPose,
     calls |-> <<"controller.setTransform">>]

\* variant: R builds a fresh controller with default options
keydown_rebuild(c, code, pose) ==
    IF code = "KeyR"
    THEN [ctrl |-> setTransform(newController([k \in DOMAIN Config |-> 0]), ResetPose),
          poseArg |-> ResetPose,
          calls |-> <<"controller.setTransform">>]
    ELSE [ctrl |-> c, poseArg |-> pose, calls |-> <<>>]

\* the keydown listener
keydown(c, code, pose) ==
    IF code = "KeyR"
    THEN [ctrl |-> setTransform(c, ResetPose), poseArg |-> ResetPose,
          calls |-> <<"controller.setTransform">>]
    ELSE [ctrl |-> c, poseArg |-> pose, calls |-> <<>>]

\* ---------------------------------------------------------------- state machine
Init ==
    /\ handler = "none"
    /\ win \in WinSizes
    /\ docHasHud \in BOOLEAN
    /\ hudEl = "unset"
    /\ hudHTML = <<>>
    /\ camera = [aspect |-> <<1, 1>>, projAspect |-> <<1, 1>>]
    /\ rendererSize = <<0, 0>>
    /\ ctrl = NoCtrl
    /\ clockRunning = FALSE
    /\ elapsed = 0
    /\ dtArg = 0
    /\ poseArg = NoPose
    /\ startPose = NoPose
    /\ lastKey = ""
    /\ pending = 0
    /\ calls = <<>>

\* the module body: set-up, then the first animate() call
Startup ==
    /\ handler = "none"
    /\ LET c0 == newController(Config)
           c1 == setTransform(c0, StartupPose)
           el == getElementById(docHasHud)
       IN \E e \in ElapsedChoices : \E p \in UpdateOutcomes(c1, ClampDt(getDelta(clockRunning, e))) :
            LET r == animate(c1, el, hudHTML, clockRunning, e, p, pending)
            IN /\ handler' = "startup"
               /\ rendererSize' = win
               /\ camera' = [aspect |-> Ratio(win[1], win[2]), projAspect |-> Ratio(win[1], win[2])]
               /\ hudEl' = el
               /\ poseArg' = StartupPose
               /\ startPose' = StartupPose
               /\ clockRunning' = TRUE
               /\ ctrl' = r.ctrl
               /\ hudHTML' = r.hudHTML
               /\ elapsed' = r.elapsed
               /\ dtArg' = r.dtArg
               /\ pending' = r.pending
               /\ calls' = <<"renderer.setSize", "new AirplaneController",
                             "controller.setTransform", "getElementById",
                             "addEventListener", "addEventListener">> \o r.calls
    /\ UNCHANGED <<win, docHasHud, lastKey>>

\* the browser runs a requested animation frame callback
Frame ==
    /\ handler # "none"
    /\ pending > 0
    /\ \E e \in ElapsedChoices : \E p \in UpdateOutcomes(ctrl, ClampDt(getDelta(clockRunning, e))) :
         LET r == animate(ctrl, hudEl, hudHTML, clockRunning, e, p, pending - 1)
         IN /\ handler' = "frame"
            /\ clockRunning' = TRUE
            /\ ctrl' = r.ctrl
            /\ hudHTML' = r.hudHTML
            /\ elapsed' = r.elapsed
            /\ dtArg' = r.dtArg
            /\ pending' = r.pending
            /\ calls' = r.calls
    /\ UNCHANGED <<win, docHasHud, hudEl, camera, rendererSize, poseArg, startPose, lastKey>>

\* the window is resized to w x h and the resize event is dispatched
Resize(w, h) ==
    /\ handler # "none"
    /\ LET r == resize(w, h)
       IN /\ handler' = "resize"
          /\ win' = <<w, h>>
          /\ camera' = r.camera
          /\ rendererSize' = r.rendererSize
          /\ calls' = r.calls
    /\ UNCHANGED <<docHasHud, hudEl, hudHTML, ctrl, clockRunning, elapsed, dtArg,
                   poseArg, startPose, lastKey, pending>>

\* a keydown event with e.code = code is dispatched
KeyDown(code) ==
    /\ handler # "none"
    /\ LET r == keydown(ctrl, code, poseArg)
       IN /\ handler' = "keydown"
          /\ lastKey' = code
          /\ ctrl' = r.ctrl
          /\ poseArg' = r.poseArg
          /\ calls' = r.calls
    /\ UNCHANGED <<win, docHasHud, hudEl, hudHTML, camera, rendererSize, clockRunning,
                   elapsed, dtArg, startPose, pending>>

Next ==
    \/ Startup
    \/ Frame
    \/ \E w \in Widths, h \in Heights : Resize(w, h)
    \/ \E code \in KeyCodes : KeyDown(code)

Spec == Init /\ [][Next]_vars

\* the browser runs the module, and eventually runs a requested animation frame callback
LiveSpec == Spec /\ WF_vars(Startup) /\ WF_vars(Frame)

TypeOK ==
    /\ handler \in {"none", "startup", "frame", "resize", "keydown"}
    /\ win \in WinSizes
    /\ hudEl \in {"unset", "null", "div"}
    /\ pending \in 0..2
    /\ ctrl.constructed \in BOOLEAN

\* ---------------------------------------------------------------- properties
RanAnimate == handler \in {"startup", "frame"}

\* C1: the dt passed to controller.update is min(0.05 s, elapsed): never above
\* 50 ms, and equal to the elapsed time whenever that is at most 50 ms.
C1_DtIsClampedElapsed ==
    RanAnimate =>
        /\ dtArg <= 50
        /\ (elapsed <= 50 => dtArg = elapsed)
        /\ (elapsed > 50 => dtArg = 50)

\* a frame after a long tab suspension stepped the simulation by 50 ms
C1_Witness == handler = "frame" /\ elapsed = 60000 /\ dtArg = 50

\* C2: a keydown with code KeyR calls setTransform with position (0, 2, 0),
\* euler (0, 0, 0) in order YXZ and throttle 0, whatever the plane state was,
\* and that pose is the one set at start-up.
C2_ResetIsTakeoffPose ==
    (handler = "keydown" /\ lastKey = "KeyR") =>
        /\ Count("controller.setTransform", calls) = 1
        /\ poseArg.position = <<0, 2, 0>>
        /\ poseArg.euler = [x |-> 0, y |-> 0, z |-> 0, order |-> "YXZ"]
        /\ poseArg.throttle = 0
        /\ poseArg = startPose

\* R was pressed while the HUD still shows the 50 % throttle of the last frame
C2_Witness ==
    /\ handler = "keydown" /\ lastKey = "KeyR"
    /\ hudHTML # <<>> /\ hudHTML[2] = 50
    /\ poseArg.throttle = 0 /\ ctrl.plane.throttle = 0

\* C3: controller.update is called exactly once by each animate() and by
\* nothing else: not by the keydown listener, the resize listener or updateHUD.
C3_UpdateOncePerFrame ==
    /\ RanAnimate => Count("controller.update", calls) = 1
    /\ handler \in {"resize", "keydown"} => Count("controller.update", calls) = 0
    /\ ~Has("controller.update", updateHUD(hudEl, hudHTML, ctrl).calls)

\* a frame with a HUD made its single update call
C3_Witness ==
    /\ handler = "frame" /\ hudEl = "div"
    /\ Count("controller.update", calls) = 1 /\ Len(calls) = 7

\* C4: setTransform is called once at start-up, before the first update, and
\* once per keydown whose code is KeyR; other keys, resizes and frames never call it.
C4_SetTransformCalls ==
    /\ handler = "none" => calls = <<>>
    /\ handler = "startup" => Before("controller.setTransform", "controller.update", calls)
    /\ handler = "keydown" =>
          Count("controller.setTransform", calls) = (IF lastKey = "KeyR" THEN 1 ELSE 0)
    /\ handler \in {"resize", "frame"} => Count("controller.setTransform", calls) = 0

\* a key other than R was pressed and nothing was called
C4_Witness == handler = "keydown" /\ lastKey = "KeyW" /\ calls = <<>>

\* C5: with a HUD element, updateHUD runs after the frame's update and before
\* render, and the text written is derived from the status after that update.
C5_HudAfterUpdate ==
    (RanAnimate /\ hudEl = "div") =>
        /\ Before("controller.update", "controller.getStatus", calls)
        /\ Before("controller.update", "controller.getEnginePower", calls)
        /\ Before("controller.getStatus", "hudEl.innerHTML", calls)
        /\ Before("controller.getEnginePower", "hudEl.innerHTML", calls)
        /\ Before("hudEl.innerHTML", "renderer.render", calls)
        /\ hudHTML = <<SpeedText(getStatus(ctrl).speed), ThrottleText(getEnginePower(ctrl)),
                       DegText(getStatus(ctrl).pitchDeg), DegText(getStatus(ctrl).bankDeg)>>

\* a frame wrote "Vel: 12.3, Throttle: 50%, Pitch/Bank: 45 / -60"
C5_Witness == handler = "frame" /\ hudEl = "div" /\ hudHTML = <<123, 50, 45, -60>>

\* C6: without a HUD element updateHUD calls neither getStatus nor
\* getEnginePower and writes nothing, and the frame still renders and
\* requests the next frame.
C6_NoHudNoStatus ==
    (RanAnimate /\ hudEl = "null") =>
        /\ ~Has("controller.getStatus", calls)
        /\ ~Has("controller.getEnginePower", calls)
        /\ ~Has("hudEl.innerHTML", calls)
        /\ hudHTML = <<>>
        /\ Before("renderer.render", "requestAnimationFrame", calls)
        /\ pending = 1

\* a frame ran without a HUD element
C6_Witness ==
    /\ handler = "frame" /\ hudEl = "null" /\ ~docHasHud
    /\ Has("renderer.render", calls) /\ pending = 1

\* C7: the configuration is the one given to the constructor, and no later
\* step (frame, R reset, resize, HUD update) changes any value of it.
C7_ConfigImmutable ==
    [][ /\ (~ctrl.constructed /\ ctrl'.constructed) => ctrl'.cfg = Config
        /\ ctrl.constructed => (ctrl'.constructed /\ ctrl'.cfg = ctrl.cfg) ]_vars

\* R was pressed and the configuration still has the constructor's values
C7_Witness ==
    /\ handler = "keydown" /\ lastKey = "KeyR" /\ ctrl.constructed
    /\ ctrl.cfg.maxSpeed = 120 /\ ctrl.cfg.drag = 15
    /\ ctrl.cfg.stallSpeed = 12 /\ ctrl.cfg.minY = 2

\* C8: a resize sets camera.aspect to innerWidth / innerHeight and the renderer
\* size to (innerWidth, innerHeight), and leaves the controller unchanged.
C8_ResizeEffect ==
    [][ handler' = "resize" =>
          /\ camera'.aspect[1] * win'[2] = camera'.aspect[2] * win'[1]
          /\ rendererSize' = win'
          /\ ctrl' = ctrl ]_vars

\* the window was resized to 1600 x 600
C8_Witness ==
    /\ handler = "resize" /\ win = <<1600, 600>>
    /\ camera.aspect = <<8, 3>> /\ rendererSize = <<1600, 600>>

PoseWithinLimits(pose, cfg) ==
    /\ pose.position[2] >= cfg.minY
    /\ pose.throttle >= 0 /\ pose.throttle <= 1000
    /\ Abs(pose.euler.x) <= cfg.pitchLimit
    /\ Abs(pose.euler.z) <= cfg.bankLimit

\* C9: every pose passed to setTransform (start-up and R) respects the
\* configured limits: y not below minY, throttle in 0..1, pitch and bank
\* within pitchLimit and bankLimit.
C9_PosesWithinLimits ==
    handler # "none" =>
        /\ PoseWithinLimits(startPose, ctrl.cfg)
        /\ PoseWithinLimits(poseArg, ctrl.cfg)

\* R reset the plane to a pose exactly at the minimum height
C9_Witness ==
    /\ handler = "keydown" /\ lastKey = "KeyR"
    /\ Has("controller.setTransform", calls)
    /\ poseArg.position[2] = ctrl.cfg.minY

\* C10: the frame loop neither stops nor duplicates: animate() starts once,
\* each animate() requests exactly one next frame as its last call, no
\* listener requests one, at most one callback is pending, and a frame always
\* eventually runs.
C10_LoopRunsForever ==
    /\ [](pending <= 1)
    /\ [](handler # "none" => pending = 1)
    /\ [](RanAnimate => /\ Count("requestAnimationFrame", calls) = 1
                         /\ calls[Len(calls)] = "requestAnimationFrame")
    /\ [](handler \in {"resize", "keydown"} => ~Has("requestAnimationFrame", calls))
    /\ [][handler' = "startup" => handler = "none"]_vars
    /\ []<><<Frame>>_vars

\* a frame ran on the ground and left one callback pending
C10_Witness ==
    /\ handler = "frame" /\ pending = 1
    /\ ctrl.plane.position[2] = 2
    /\ calls[Len(calls)] = "requestAnimationFrame"

====
